---- MODULE Spec2Model ----
(***************************************************************************)
(* Model of main.py: a FastAPI facade over one remote table,               *)
(* "prescriptions".  The remote table, the sequence that assigns ids and   *)
(* the process environment are the state; every endpoint is one action.    *)
(***************************************************************************)
EXTENDS Integers, Sequences, FiniteSets, TLC

VARIABLES
    supabase_url,      \* os.getenv("SUPABASE_URL")
    supabase_key,      \* os.getenv("SUPABASE_KEY")
    phase,             \* "init" | "serving" | "failed"
    prescriptions,     \* rows of the remote table, in insertion order
    next_id,           \* next id the persistence layer assigns
    request,           \* the request handled last
    response,          \* the response sent for it
    submitted,         \* id -> the form_data whose insert stored row id
    deleted            \* ids for which a delete was answered 200

vars == <<supabase_url, supabase_key, phase, prescriptions, next_id, request,
          response, submitted, deleted>>

\* ------------------------------------------------------------------ bounds
\* Largest number of rows the persistence layer is asked to insert.
MaxPrescriptions == 2

\* ------------------------------------------------------------- environment
Unset == "<unset>"
EnvValues == {Unset, "", "configured"}

\* Python truthiness of an os.getenv result: None and "" are falsy.
Truthy(v) == v # Unset /\ v # ""

missing_credentials_and(url, key) == ~Truthy(url) /\ ~Truthy(key)

\* `not supabase_url or not supabase_key`
missing_credentials(url, key) == ~Truthy(url) \/ ~Truthy(key)

\* ------------------------------------------------------------------ shapes
MedFields == {"name", "dosage", "frequency", "note"}
StrFields == {"sendToValue", "patientName", "patientAge",
              "patientDescription", "currentDate"}
FormFields == {"drid", "medicines"} \cup StrFields
ResponseFields == {"id"} \cup FormFields

MapSeq(f(_), s) == [i \in 1..Len(s) |-> f(s[i])]
Reverse(s) == [i \in 1..Len(s) |-> s[Len(s) + 1 - i]]

\* Medicine(**med): needs the four fields, ignores any other key.
MedicineOk(med) == MedFields \subseteq DOMAIN med
Medicine(med) == [f \in MedFields |-> med[f]]

\* med.dict()
MedicineDict(med) == [f \in MedFields |-> med[f]]

\* PrescriptionResponse(**row)
PrescriptionResponse(row) == [f \in ResponseFields |-> row[f]]

Paracetamol == [name |-> "Paracetamol", dosage |-> "500mg",
                frequency |-> "2x/day", note |-> "after meals"]
Ibuprofen == [name |-> "Ibuprofen", dosage |-> "200mg",
              frequency |-> "3x/day", note |-> ""]
\* a stored medicine entry that lacks required keys
BrokenMedicine == [name |-> "Paracetamol"]

MedicineLists == {<<>>, <<Paracetamol, Ibuprofen>>}
Drids == {0, 1}

FormOf(d, meds) ==
    [drid |-> d, sendToValue |-> "pharmacy", patientName |-> "Jane Doe",
     patientAge |-> "34", patientDescription |-> "flu",
     currentDate |-> "2024-01-01", medicines |-> meds]

Forms == {FormOf(d, meds) : d \in Drids, meds \in MedicineLists}

\* ------------------------------------------------------- request payloads
\* A JSON scalar of the request body, tagged with its JSON type.
JInt(n) == [t |-> "int", n |-> n, s |-> ""]
JStr(s) == [t |-> "str", n |-> 0, s |-> s]
JArr == [t |-> "array", n |-> 0, s |-> ""]

NumericStrings == {"0", "1"}
ParseInt(s) == IF s = "0" THEN 0 ELSE 1

\* pydantic, field of type int: an integer, or a string holding one.
IntOk(v) == v.t = "int" \/ (v.t = "str" /\ v.s \in NumericStrings)
IntOf(v) == IF v.t = "int" THEN v.n ELSE ParseInt(v.s)
StrOk_any(v) == TRUE

\* pydantic, field of type str
StrOk(v) == v.t = "str"

Raw(form) ==
    [f \in FormFields |->
        IF f = "drid" THEN JInt(form.drid)
        ELSE IF f = "medicines" THEN form.medicines
        ELSE JStr(form[f])]

Without(r, k) == [f \in (DOMAIN r) \ {k} |-> r[f]]

BasePayload == Raw(FormOf(1, <<Paracetamol, Ibuprofen>>))

RawPayloads ==
    {Raw(f) : f \in Forms}
    \cup {Without(BasePayload, k) : k \in FormFields}
    \cup {[BasePayload EXCEPT !.drid = v] : v \in {JStr("1"), JStr("abc"), JArr}}
    \cup {[BasePayload EXCEPT !.patientName = JArr]}
    \cup {[BasePayload EXCEPT !.medicines = <<Paracetamol, BrokenMedicine>>]}

NoBody == [t |-> "none"]

\* FastAPI validates the body against FormData before the handler runs.
FormDataOk(raw) ==
    /\ FormFields \subseteq DOMAIN raw
    /\ IntOk(raw.drid)
    /\ \A f \in StrFields : StrOk(raw[f])
    /\ \A i \in 1..Len(raw.medicines) : MedicineOk(raw.medicines[i])

FormData(raw) ==
    [f \in FormFields |->
        IF f = "drid" THEN IntOf(raw.drid)
        ELSE IF f = "medicines" THEN MapSeq(Medicine, raw.medicines)
        ELSE raw[f].s]

\* ------------------------------------------------------------ remote store
\* What the remote service does with one call: answer, answer with nothing,
\* answer with medicine data that lost its shape, or raise.
RaisingFaults == {"timeout", "refused"}
InsertFaults == {"none", "empty", "corrupt"} \cup RaisingFaults
SelectFaults == {"none", "corrupt"} \cup RaisingFaults
DeleteFaults == {"none"} \cup RaisingFaults

StoreMessage(fault) ==
    IF fault = "timeout" THEN "The read operation timed out"
    ELSE "Connection refused"

ShapeMessage == "1 validation error for Medicine"

Damage(row) == [row EXCEPT !.medicines = <<BrokenMedicine>>]
Answer(rows, fault) == IF fault = "corrupt" THEN MapSeq(Damage, rows) ELSE rows

Ids(tbl) == {tbl[i].id : i \in 1..Len(tbl)}
Filter(tbl, P(_)) == SelectSeq(tbl, P)

\* supabase.table("prescriptions").insert(data).execute()
StoreInsert(tbl, nid, data, fault) ==
    IF fault \in RaisingFaults \cup {"empty"}
    THEN [raised |-> fault \in RaisingFaults, data |-> <<>>,
          table |-> tbl, next |-> nid]
    ELSE LET row == [id |-> nid] @@ data
         IN [raised |-> FALSE, data |-> Answer(<<row>>, fault),
             table |-> Append(tbl, row), next |-> nid + 1]

\* query.eq(column, value).execute() / query.execute()
StoreSelect(tbl, filtered, column, value, fault) ==
    LET Match(row) == ~filtered \/ row[column] = value
    IN IF fault \in RaisingFaults
       THEN [raised |-> TRUE, data |-> <<>>]
       ELSE [raised |-> FALSE, data |-> Answer(Filter(tbl, Match), fault)]

StoreDelete_upto(tbl, id, fault) ==
    LET Match(row) == row.id <= id
        Keep(row) == ~Match(row)
    IN IF fault \in RaisingFaults
       THEN [raised |-> TRUE, data |-> <<>>, table |-> tbl]
       ELSE [raised |-> FALSE, data |-> Filter(tbl, Match),
             table |-> Filter(tbl, Keep)]

\* supabase.table("prescriptions").delete().eq("id", id).execute()
StoreDelete(tbl, id, fault) ==
    LET Match(row) == row.id = id
        Keep(row) == ~Match(row)
    IN IF fault \in RaisingFaults
       THEN [raised |-> TRUE, data |-> <<>>, table |-> tbl]
       ELSE [raised |-> FALSE, data |-> Filter(tbl, Match),
             table |-> Filter(tbl, Keep)]

\* --------------------------------------------------------------- responses
Reply(status, detail, message, body, ops) ==
    [status |-> status, detail |-> detail, message |-> message,
     body |-> body, ops |-> ops]

NoReply == Reply(0, <<>>, "", <<>>, <<>>)

\* str(e) for e = HTTPException(status_code=..., detail=...); what it prints
\* depends on the installed framework and is left uninterpreted.
StrHTTPException(status_text, detail) ==
    <<"str(HTTPException(", status_text, detail, "))">>

Caught_swallowed(message, ops) ==
    Reply(500, <<"An error occurred: ">>, "", <<>>, ops)

\* except Exception as e:
\*     raise HTTPException(status_code=500, detail=f"An error occurred: {str(e)}")
Caught(message, ops) ==
    Reply(500, <<"An error occurred: ">> \o message, "", <<>>, ops)

NotFound(ops) == Reply(404, <<"Prescription not found">>, "", <<>>, ops)

\* the rows of a result, rebuilt into the response shape
AllMedicinesOk(row) == \A i \in 1..Len(row.medicines) : MedicineOk(row.medicines[i])
Rebuild(row) ==
    PrescriptionResponse([row EXCEPT !.medicines = MapSeq(Medicine, row.medicines)])

\* ---------------------------------------------------------------- handlers
Outcome(reply, table, next) == [reply |-> reply, table |-> table, next |-> next]

create_prescription_reversed(form_data, fault) ==
    LET prescription_data ==
            [form_data EXCEPT !.medicines = Reverse(MapSeq(MedicineDict, form_data.medicines))]
        result == StoreInsert(prescriptions, next_id, prescription_data, fault)
        ops == <<"insert">>
        reply ==
            IF result.raised THEN Caught(<<StoreMessage(fault)>>, ops)
            ELSE IF Len(result.data) = 0
            THEN Caught(StrHTTPException("500", "Failed to store prescription"), ops)
            ELSE IF ~AllMedicinesOk(result.data[1]) THEN Caught(<<ShapeMessage>>, ops)
            ELSE Reply(200, <<>>, "", <<Rebuild(result.data[1])>>, ops)
    IN Outcome(reply, result.table, result.next)

create_prescription_retry(form_data, fault) ==
    LET prescription_data ==
            [form_data EXCEPT !.medicines = MapSeq(MedicineDict, form_data.medicines)]
        first == StoreInsert(prescriptions, next_id, prescription_data, fault)
        again == ~first.raised /\ Len(first.data) = 0
        result == IF again
                  THEN StoreInsert(first.table, first.next, prescription_data, fault)
                  ELSE first
        ops == IF again THEN <<"insert", "insert">> ELSE <<"insert">>
        reply ==
            IF result.raised THEN Caught(<<StoreMessage(fault)>>, ops)
            ELSE IF Len(result.data) = 0
            THEN Caught(StrHTTPException("500", "Failed to store prescription"), ops)
            ELSE IF ~AllMedicinesOk(result.data[1]) THEN Caught(<<ShapeMessage>>, ops)
            ELSE Reply(200, <<>>, "", <<Rebuild(result.data[1])>>, ops)
    IN Outcome(reply, result.table, result.next)

\* POST /prescriptions/
create_prescription(form_data, fault) ==
    LET prescription_data ==
            [form_data EXCEPT !.medicines = MapSeq(MedicineDict, form_data.medicines)]
        result == StoreInsert(prescriptions, next_id, prescription_data, fault)
        ops == <<"insert">>
        reply ==
            IF result.raised THEN Caught(<<StoreMessage(fault)>>, ops)
            ELSE IF Len(result.data) = 0
            \* the HTTPException(500) raised in the try block is caught by
            \* `except Exception` and wrapped
            THEN Caught(StrHTTPException("500", "Failed to store prescription"), ops)
            ELSE IF ~AllMedicinesOk(result.data[1]) THEN Caught(<<ShapeMessage>>, ops)
            ELSE Reply(200, <<>>, "", <<Rebuild(result.data[1])>>, ops)
    IN Outcome(reply, result.table, result.next)

\* Optional[int] query parameter
None == [present |-> FALSE, value |-> 0]
Some(n) == [present |-> TRUE, value |-> n]

\* GET /prescriptions/
get_prescriptions(drid, fault) ==
    LET filtered == drid.present /\ drid.value # 0      \* `if drid:`
        result == StoreSelect(prescriptions, filtered, "drid", drid.value, fault)
        ops == <<"select">>
        reply ==
            IF result.raised THEN Caught(<<StoreMessage(fault)>>, ops)
            ELSE IF Len(result.data) = 0 THEN Reply(200, <<>>, "", <<>>, ops)
            ELSE IF \E i \in 1..Len(result.data) : ~AllMedicinesOk(result.data[i])
            THEN Caught(<<ShapeMessage>>, ops)
            ELSE Reply(200, <<>>, "", MapSeq(Rebuild, result.data), ops)
    IN Outcome(reply, prescriptions, next_id)

get_prescription_no_reraise(prescription_id, fault) ==
    LET result == StoreSelect(prescriptions, TRUE, "id", prescription_id, fault)
        ops == <<"select">>
        reply ==
            IF result.raised THEN Caught(<<StoreMessage(fault)>>, ops)
            ELSE IF Len(result.data) = 0
            THEN Caught(StrHTTPException("404", "Prescription not found"), ops)
            ELSE IF ~AllMedicinesOk(result.data[1]) THEN Caught(<<ShapeMessage>>, ops)
            ELSE Reply(200, <<>>, "", <<Rebuild(result.data[1])>>, ops)
    IN Outcome(reply, prescriptions, next_id)

\* GET /prescriptions/{prescription_id}
get_prescription(prescription_id, fault) ==
    LET result == StoreSelect(prescriptions, TRUE, "id", prescription_id, fault)
        ops == <<"select">>
        reply ==
            IF result.raised THEN Caught(<<StoreMessage(fault)>>, ops)
            \* `except HTTPException: raise` lets the 404 through
            ELSE IF Len(result.data) = 0 THEN NotFound(ops)
            ELSE IF ~AllMedicinesOk(result.data[1]) THEN Caught(<<ShapeMessage>>, ops)
            ELSE Reply(200, <<>>, "", <<Rebuild(result.data[1])>>, ops)
    IN Outcome(reply, prescriptions, next_id)

\* DELETE /prescriptions/{prescription_id}
delete_prescription(prescription_id, fault) ==
    LET result == StoreDelete(prescriptions, prescription_id, fault)
        ops == <<"delete">>
        reply ==
            IF result.raised THEN Caught(<<StoreMessage(fault)>>, ops)
            \* no `except HTTPException` clause here: the HTTPException(404)
            \* is caught by `except Exception` and wrapped into a 500
            ELSE IF Len(result.data) = 0
            THEN Caught(StrHTTPException("404", "Prescription not found"), ops)
            ELSE Reply(200, <<>>, "Prescription deleted successfully", <<>>, ops)
    IN Outcome(reply, result.table, next_id)

\* ------------------------------------------------------------------ system
Request(op, payload, id, drid, fault) ==
    [op |-> op, payload |-> payload, id |-> id, drid |-> drid, fault |-> fault]

NoRequest == Request("none", NoBody, 0, None, "none")

RequestIds == 1..(MaxPrescriptions + 1)
QueryDrids == {None} \cup {Some(d) : d \in Drids \cup {2}}

Init ==
    /\ supabase_url \in EnvValues
    /\ supabase_key \in EnvValues
    /\ phase = "init"
    /\ prescriptions = <<>>
    /\ next_id = 1
    /\ request = NoRequest
    /\ response = NoReply
    /\ submitted = <<>>
    /\ deleted = {}

\* module initialisation, lines 14-22
Startup ==
    /\ phase = "init"
    /\ phase' = IF missing_credentials(supabase_url, supabase_key)
                THEN "failed" ELSE "serving"
    /\ UNCHANGED <<supabase_url, supabase_key, prescriptions, next_id, request,
                   response, submitted, deleted>>

Unprocessable == Reply(422, <<"validation error">>, "", <<>>, <<>>)

Create ==
    /\ phase = "serving"
    /\ \E raw \in RawPayloads, fault \in InsertFaults :
        IF ~FormDataOk(raw)
        THEN /\ fault = "none"
             /\ request' = Request("create", raw, 0, None, fault)
             /\ response' = Unprocessable
             /\ UNCHANGED <<prescriptions, next_id, submitted>>
        ELSE /\ next_id <= MaxPrescriptions
             /\ LET form_data == FormData(raw)
                    out == create_prescription(form_data, fault)
                IN /\ request' = Request("create", raw, 0, None, fault)
                   /\ response' = out.reply
                   /\ prescriptions' = out.table
                   /\ next_id' = out.next
                   /\ submitted' = IF out.next # next_id
                                   THEN (next_id :> form_data) @@ submitted
                                   ELSE submitted
    /\ UNCHANGED <<supabase_url, supabase_key, phase, deleted>>

List ==
    /\ phase = "serving"
    /\ \E drid \in QueryDrids, fault \in SelectFaults :
        LET out == get_prescriptions(drid, fault)
        IN /\ request' = Request("list", NoBody, 0, drid, fault)
           /\ response' = out.reply
           /\ prescriptions' = out.table
           /\ next_id' = out.next
    /\ UNCHANGED <<supabase_url, supabase_key, phase, submitted, deleted>>

Get ==
    /\ phase = "serving"
    /\ \E id \in RequestIds, fault \in SelectFaults :
        LET out == get_prescription(id, fault)
        IN /\ request' = Request("get", NoBody, id, None, fault)
           /\ response' = out.reply
           /\ prescriptions' = out.table
           /\ next_id' = out.next
    /\ UNCHANGED <<supabase_url, supabase_key, phase, submitted, deleted>>

Delete ==
    /\ phase = "serving"
    /\ \E id \in RequestIds, fault \in DeleteFaults :
        LET out == delete_prescription(id, fault)
        IN /\ request' = Request("delete", NoBody, id, None, fault)
           /\ response' = out.reply
           /\ prescriptions' = out.table
           /\ next_id' = out.next
           /\ deleted' = IF out.reply.status = 200 THEN deleted \cup {id} ELSE deleted
    /\ UNCHANGED <<supabase_url, supabase_key, phase, submitted>>

Next == Startup \/ Create \/ List \/ Get \/ Delete

Spec == Init /\ [][Next]_vars

\* ------------------------------------------------------------- properties
Answered(req) == req.fault \notin RaisingFaults
RowsWhere(P(_)) == SelectSeq(prescriptions, P)
ErrorPrefix == "An error occurred: "

\* C1: deleteById(id) answers 404 (NotFound) whenever the store call reports
\* no rows affected, i.e. for every id absent from the store at the time of
\* the call.
C1_DeleteAbsentIs404 ==
    [][(/\ request'.op = "delete"
        /\ Answered(request')
        /\ request'.id \notin Ids(prescriptions))
       => response'.status = 404]_vars

\* C2: getById(id) answers 404 "Prescription not found" for every id with no
\* matching record at the time of the call, and answers 200 with the matching
\* record when there is one (the store call itself answering).
C2_GetByIdNotFoundOrRecord ==
    [][(request'.op = "get") =>
        /\ (Answered(request') /\ request'.id \notin Ids(prescriptions))
            => /\ response'.status = 404
               /\ response'.detail = <<"Prescription not found">>
        /\ (request'.fault = "none" /\ request'.id \in Ids(prescriptions))
            => /\ response'.status = 200
               /\ \E i \in 1..Len(prescriptions) :
                    /\ prescriptions[i].id = request'.id
                    /\ response'.body = <<prescriptions[i]>>]_vars

C2_Witness ==
    /\ request.op = "get"
    /\ response.status = 404
    /\ Len(prescriptions) > 0

\* C3: a create answered 200 returns the validated input plus an id, and every
\* later getById(that id) answered 200 returns a record whose fields all equal
\* that input, medicines in the same order (also when empty), plus the id.
C3_CreateThenGetRoundTrip ==
    /\ (request.op = "create" /\ response.status = 200) =>
        LET rid == response.body[1].id
        IN /\ rid \in DOMAIN submitted
           /\ submitted[rid] = FormData(request.payload)
           /\ response.body = <<[id |-> rid] @@ submitted[rid]>>
    /\ (request.op = "get" /\ response.status = 200) =>
        /\ request.id \in DOMAIN submitted
        /\ response.body = <<[id |-> request.id] @@ submitted[request.id]>>
        /\ response.body[1].medicines = submitted[request.id].medicines

C3_Witness ==
    /\ request.op = "get"
    /\ response.status = 200
    /\ response.body[1].medicines = <<Paracetamol, Ibuprofen>>

\* C4: list with a doctor-id filter supplied returns exactly the stored
\* records whose drid equals the supplied value, for every integer including
\* 0 (an empty sequence with status 200 when none matches); list without a
\* filter returns all stored records.
C4_ListFiltersByDrid ==
    (request.op = "list" /\ request.fault = "none") =>
        LET Wanted(row) == ~request.drid.present \/ row.drid = request.drid.value
        IN /\ response.status = 200
           /\ response.body = RowsWhere(Wanted)

\* C5: after a delete answered 200 for an id, every later getById(id) answers
\* 404, every later list omits the record, and a second deleteById(id)
\* answers 404 rather than success.
C5_DeletedStaysGone ==
    [][/\ (request'.op = "get" /\ Answered(request') /\ request'.id \in deleted)
            => response'.status = 404
       /\ (request'.op = "list" /\ response'.status = 200)
            => \A i \in 1..Len(response'.body) : response'.body[i].id \notin deleted
       /\ (request'.op = "delete" /\ Answered(request') /\ request'.id \in deleted)
            => response'.status = 404]_vars

\* C6: in each of the four operations a failure that is not a not-found
\* condition (the store call raising, the insert returning no data, stored
\* medicine data that cannot be rebuilt) is answered 500 with a detail that
\* carries the underlying message, after a single store call.
C6_FailuresAre500 ==
    LET f == request.fault
        RowsCameBack ==
            \/ request.op = "create"
            \/ request.op = "get" /\ request.id \in Ids(prescriptions)
            \/ /\ request.op = "list"
               /\ \/ ~request.drid.present /\ Len(prescriptions) > 0
                  \/ /\ request.drid.present
                     /\ \E i \in 1..Len(prescriptions) :
                            prescriptions[i].drid = request.drid.value
    IN /\ f \in RaisingFaults =>
            /\ request.op \in {"create", "list", "get", "delete"}
            /\ response.status = 500
            /\ response.detail = <<ErrorPrefix, StoreMessage(f)>>
            /\ Len(response.ops) = 1
       /\ f = "empty" =>
            /\ request.op = "create"
            /\ response.status = 500
            /\ Len(response.detail) > 1
            /\ response.detail[1] = ErrorPrefix
            /\ Len(response.ops) = 1
       /\ (f = "corrupt" /\ RowsCameBack) =>
            /\ response.status = 500
            /\ response.detail = <<ErrorPrefix, ShapeMessage>>
            /\ Len(response.ops) = 1

C6_Witness ==
    /\ request.op = "get"
    /\ request.fault = "corrupt"
    /\ response.status = 500

\* the payload lacks a field, or a field's JSON type is not the declared one
Mistyped(raw) ==
    \/ \E f \in FormFields : f \notin DOMAIN raw
    \/ raw.drid.t # "int"
    \/ \E f \in StrFields : raw[f].t # "str"
    \/ \E i \in 1..Len(raw.medicines) : \E k \in MedFields :
            k \notin DOMAIN raw.medicines[i]

\* the payload lacks a field, or a field's value cannot be converted to the
\* declared type
Unconvertible(raw) ==
    \/ \E f \in FormFields : f \notin DOMAIN raw
    \/ raw.drid.t \notin {"int", "str"}
    \/ raw.drid.t = "str" /\ raw.drid.s \notin NumericStrings
    \/ \E f \in StrFields : raw[f].t # "str"
    \/ \E i \in 1..Len(raw.medicines) : \E k \in MedFields :
            k \notin DOMAIN raw.medicines[i]

\* C7: every request that passes schema validation performs exactly one store
\* operation (insert for create, select for list and getById, delete for
\* deleteById), whether it ends in success or in an error response; no
\* request performs two or more.
C7_OneStoreOperation ==
    [][/\ (request'.op = "create" /\ ~Unconvertible(request'.payload))
            => /\ response'.ops = <<"insert">>
               /\ next_id' <= next_id + 1
               /\ Len(prescriptions') <= Len(prescriptions) + 1
       /\ request'.op \in {"list", "get"} => response'.ops = <<"select">>
       /\ request'.op = "delete"
            => /\ response'.ops = <<"delete">>
               /\ Len(prescriptions) <= Len(prescriptions') + 1
       /\ Len(response'.ops) <= 1]_vars

C7_Witness ==
    /\ request.op = "create"
    /\ request.fault = "empty"
    /\ response.status = 500
    /\ response.ops = <<"insert">>

C9_NoServiceWithoutCredentials ==
    /\ (supabase_url = Unset \/ supabase_key = Unset) =>
        /\ phase \in {"init", "failed"}
        /\ request = NoRequest
        /\ response = NoReply
    /\ (request # NoRequest) =>
        /\ supabase_url # Unset
        /\ supabase_key # Unset
        /\ phase = "serving"
    /\ phase = "failed" => (~Truthy(supabase_url) \/ ~Truthy(supabase_key))

C9_Witness ==
    /\ phase = "failed"
    /\ supabase_url = "configured"
    /\ supabase_key = Unset

\* C10: the store changes only through create and deleteById: list and getById
\* leave it unchanged; a delete of an absent id leaves it unchanged; a delete
\* answered 200 removes exactly the record with that id; a create answered 200
\* adds exactly one record, under an id no stored record has, and changes no
\* existing record.
C10_StoreChangesOnlyByCreateAndDelete ==
    [][LET op == request'.op
           n == Len(prescriptions)
           Others(row) == row.id # request'.id
       IN /\ op \in {"none", "list", "get"} => prescriptions' = prescriptions
          /\ (op = "delete" /\ request'.id \notin Ids(prescriptions))
                => prescriptions' = prescriptions
          /\ (op = "delete" /\ response'.status = 200)
                => /\ request'.id \in Ids(prescriptions)
                   /\ prescriptions' = RowsWhere(Others)
          /\ (op = "create" /\ response'.status = 200)
                => /\ Len(prescriptions') = n + 1
                   /\ SubSeq(prescriptions', 1, n) = prescriptions
                   /\ prescriptions'[n + 1].id = response'.body[1].id
                   /\ prescriptions'[n + 1].id \notin Ids(prescriptions)
          /\ prescriptions' # prescriptions => op \in {"create", "delete"}]_vars

C10_Witness ==
    /\ request.op = "delete"
    /\ response.status = 200
    /\ Len(prescriptions) = 1

====
